---- MODULE Spec2Model ----
(***************************************************************************)
(* Model of the MCP Confluence server: the tool dispatcher                 *)
(* (ConfluenceMCPServer), the HTTP client wrapper (ConfluenceClient) with  *)
(* its fixed-window rate limiter and its response-error interceptor, and   *)
(* the configuration manager (ConfigManager) with token renewal.           *)
(*                                                                         *)
(* Time is a discrete clock `now`.  The remote answers every request with  *)
(* a status it chooses freely.  A JavaScript handler runs without          *)
(* interruption between two awaits on I/O, so one action covers the code   *)
(* from one network or prompt suspension to the next.                      *)
(***************************************************************************)
EXTENDS Integers, Sequences, FiniteSets, TLC

\* ------------------------------------------------------------------ bounds

\* Last tick of the clock.
MaxNow == 2
\* rateLimitRequests of every configuration, scaled down from 100.
RateLimitRequests == 2
\* rateLimitWindowMs of every configuration, in clock ticks, scaled down from 60000.
RateLimitWindowMs == 1
\* Cap on the renewals of one client request (the code has none).
MaxRenewals == 2
\* Highest page version the remote hands out.
MaxVersion == 2

\* ------------------------------------------------------------ basic values

\* JavaScript null / undefined for an optional value: the empty sequence.
None == <<>>

Some(x) == <<x>>

IsSome(o) == o # <<>>

Val(o) == o[1]

\* error.response?.status when there is no response.
NoStatus == 0

Tokens == {"tokA", "tokB"}

BaseUrl == "https://example.atlassian.net"

Email == "user@example.com"

Calls == {1}

ReadTools ==
  {"search_confluence", "get_page", "get_space", "list_spaces",
   "search_pages", "get_recent_pages"}

\* Statuses the remote answers with; NoStatus is a timeout or network failure.
SuccessStatus == 200

FailureStatuses == {NoStatus, 400, 401, 403, 409, 429, 500}

\* The body of an error response: absent, or an object with a message.
\* status is the body's own `status` field, which the remote does not set.
RemoteBodies == {None, Some([message |-> "remote message", status |-> NoStatus])}

Min(a, b) == IF a < b THEN a ELSE b

\* ------------------------------------------------------------ configuration

\* The Config record of configSchema.
MkConfig(token, lastValidated) ==
  [ confluenceBaseUrl  |-> BaseUrl,
    confluenceEmail    |-> Email,
    confluenceApiToken |-> token,
    logLevel           |-> "info",
    rateLimitRequests  |-> RateLimitRequests,
    rateLimitWindowMs  |-> RateLimitWindowMs,
    tokenExpiryDate    |-> None,
    lastValidated      |-> lastValidated ]

\* ConfluenceAuth.getAuthHeaders: Basic base64(email ":" token).  base64 is
\* injective, so the header is modelled by the pair it encodes.
BasicAuth(email, token) == <<"Basic", email, token>>

\* getAuthHeaders built from the e-mail address alone.
getAuthHeadersWithoutToken(config) == BasicAuth(config.confluenceEmail, "")

getAuthHeaders(config) ==
  BasicAuth(config.confluenceEmail, config.confluenceApiToken)


\* ------------------------------------------------------------------ errors

\* class ConfluenceAPIError(message, statusCode?, response?); a message is a
\* sequence of string parts.
ConfluenceAPIError(message, statusCode, response) ==
  [ name |-> "ConfluenceAPIError", message |-> message,
    statusCode |-> statusCode, response |-> response ]

AuthenticationError(message) ==
  [ name |-> "AuthenticationError", message |-> message,
    statusCode |-> 401, response |-> None ]

TokenExpiredError(message) ==
  [ name |-> "TokenExpiredError", message |-> message,
    statusCode |-> 401, response |-> None ]

RateLimitError(message) ==
  [ name |-> "RateLimitError", message |-> message,
    statusCode |-> 429, response |-> None ]

\* A plain Error: it has neither statusCode nor response.
PlainError(message) ==
  [ name |-> "Error", message |-> message,
    statusCode |-> NoStatus, response |-> None ]

NoError ==
  [ name |-> "", message |-> <<>>, statusCode |-> NoStatus, response |-> None ]

\* The AxiosError axios rejects with for a failed exchange: error.message,
\* error.response?.status and error.response?.data.
AxiosError(status, data) ==
  [ name     |-> "AxiosError",
    message  |-> IF status = NoStatus
                   THEN <<"timeout of 30000ms exceeded">>
                   ELSE <<"Request failed with status code ", ToString(status)>>,
    status   |-> status,
    data     |-> data ]

\* What the response-error interceptor sees of an error thrown by the request
\* interceptor: a RateLimitError is no AxiosError, its `response` field is
\* undefined, so error.response?.status and error.response?.data are too.
AsRejection(err) ==
  [ name |-> err.name, message |-> err.message,
    status |-> NoStatus, data |-> None ]

\* ------------------------------------------------------------------- state

VARIABLES
  now,               \* Date.now(), in ticks
  file,              \* the persisted configuration file: None or Some(data)
  cmConfig,          \* configManager.config: None or Some(Config)
  confluenceClient,  \* ConfluenceMCPServer.confluenceClient: None or
                     \* Some([config, client]), client the axios instance
  calls,             \* per tool call in progress: its position and locals
  remoteVersion,     \* version number of the page held by the remote
  monitor            \* history: the fixed window opened when the first client
                     \* was built, and the rate-limited requests sent in it

vars ==
  << now, file, cmConfig, confluenceClient, calls, remoteVersion, monitor >>

\* ------------------------------------------------------------ rate limiter

\* The axios instance of initializeClient with the closure state of
\* setupRateLimiting: requestCount = 0 and windowStart = Date.now().
\* attempts counts the calls made since windowStart, passed or rejected;
\* passedAt lists, where the reference window is kept, the times of the
\* requests this instance let pass.
NewInstance(config, t) ==
  [ authorization |-> getAuthHeaders(config),
    requestCount  |-> 0,
    windowStart   |-> t,
    attempts      |-> 0,
    passedAt      |-> <<>> ]

\* now - windowStart > this.config.rateLimitWindowMs
WindowElapsed(t, windowStart, windowMs) == t - windowStart > windowMs

\* RateLimitExceeded with the comparison off by one.
RateLimitExceededOffByOne(requestCount, quota) == requestCount > quota

\* requestCount >= this.config.rateLimitRequests
RateLimitExceeded(requestCount, quota) == requestCount >= quota

\* RateLimitInterceptor with requestCount++ placed before the check.
RateLimitInterceptorCountingRejected(inst, config, t) ==
  LET reset    == WindowElapsed(t, inst.windowStart, config.rateLimitWindowMs)
      count0   == IF reset THEN 0 ELSE inst.requestCount
      start0   == IF reset THEN t ELSE inst.windowStart
      tried0   == IF reset THEN 0 ELSE inst.attempts
      rejected == RateLimitExceeded(count0, config.rateLimitRequests)
  IN  [ inst |-> [ inst EXCEPT
                     !.requestCount = count0 + 1,
                     !.windowStart  = start0,
                     !.attempts     = Min(tried0 + 1, config.rateLimitRequests + 1),
                     !.passedAt     = IF monitor.on /\ ~rejected
                                        THEN Append(@, t) ELSE @ ],
        rejected |-> rejected,
        reset    |-> reset ]

\* The request interceptor of setupRateLimiting run at time t: the instance
\* afterwards and whether it threw RateLimitError.
RateLimitInterceptor(inst, config, t) ==
  LET reset    == WindowElapsed(t, inst.windowStart, config.rateLimitWindowMs)
      count0   == IF reset THEN 0 ELSE inst.requestCount
      start0   == IF reset THEN t ELSE inst.windowStart
      tried0   == IF reset THEN 0 ELSE inst.attempts
      rejected == RateLimitExceeded(count0, config.rateLimitRequests)
  IN  [ inst |-> [ inst EXCEPT
                     !.requestCount = IF rejected THEN count0 ELSE count0 + 1,
                     !.windowStart  = start0,
                     !.attempts     = Min(tried0 + 1, config.rateLimitRequests + 1),
                     !.passedAt     = IF monitor.on /\ ~rejected
                                        THEN Append(@, t) ELSE @ ],
        rejected |-> rejected,
        reset    |-> reset ]

\* What one run of the limiter did, kept with the call that made it.
LimiterRecord(inst, config, t) ==
  LET r == RateLimitInterceptor(inst, config, t)
  IN  [ ran         |-> TRUE,
        at          |-> t,
        elapsed     |-> t - inst.windowStart,
        triedBefore |-> inst.attempts,
        rejected    |-> r.rejected ]

NoLimiterRecord ==
  [ ran |-> FALSE, at |-> 0, elapsed |-> 0, triedBefore |-> 0,
    rejected |-> FALSE ]

\* ------------------------------------------------- response-error interceptor

\* errorMessage = data?.message || data || error.message, as a string.
DetailedMessage(error) ==
  IF IsSome(error.data) THEN <<Val(error.data).message>> ELSE error.message

\* The rejected handler of interceptors.response.use, without the renewal
\* branch: the error it throws for a rejection whose status is not 401.
ClassifyError(error) ==
  IF error.status = 403
    THEN AuthenticationError(<<"Access denied. Check your permissions.">>)
  ELSE IF error.status = 429
    THEN RateLimitError(<<"Rate limit exceeded. Please wait a moment.">>)
  ELSE ConfluenceAPIError(
         error.message \o <<" - Details: ">> \o DetailedMessage(error),
         error.status, error.data)

\* IsUnauthorized taking 403 for an expired token as well.
IsUnauthorizedOrForbidden(error) == error.status \in {401, 403}

\* error.response?.status === 401
IsUnauthorized(error) == error.status = 401

\* Headers of a request issued through an axios instance: mergeConfig gives
\* the request's own headers priority over the instance defaults.  A first
\* request carries none of its own; a resubmitted error.config carries the
\* headers of the failed attempt.
MergeAuthorization(defaults, own) == IF IsSome(own) THEN Val(own) ELSE defaults


\* The failure glyph U+274C that prefixes every error text.
FailureGlyph == "(x)"

\* A tool or resource result: one text block.
TextResult(isError, text) == Some([isError |-> isError, text |-> text])

\* The request of a client method being carried out: own is the
\* Authorization header error.config holds once the request was dispatched,
\* sentWith the Authorization header of every transmission so far, renewals
\* the calls of requestTokenRenewal, rebuilds those of initializeClient, and
\* answered, status and body the last answer of the remote.
NewRequest(method, data) ==
  [ method |-> method, data |-> data, own |-> None, sent |-> 0,
    sentWith |-> <<>>, renewals |-> 0, rebuilds |-> 0,
    answered |-> FALSE, status |-> NoStatus, body |-> None ]

NoRequest == NewRequest("", None)

\* The arguments of a tool call: ok says whether they pass the handler's
\* schema; token "" and content None stand for an argument left out;
\* supplied holds the names of the arguments given, for a call that is made
\* with a set of names.
NoArgs ==
  [ ok |-> TRUE, action |-> "", token |-> "", hasUrlAndEmail |-> FALSE,
    title |-> None, content |-> None, supplied |-> {} ]

\* What a request starts from: the file, the manager's configuration, and
\* the configuration and Authorization default of the live client.
NoSnapshot ==
  [ file |-> None, cmConfig |-> None, config |-> None, authorization |-> None ]

IdleCall ==
  [ pc        |-> "idle",
    tool      |-> "",
    uri       |-> "",    \* the URI of a resource read
    args      |-> NoArgs,
    phase     |-> "",
    req       |-> NoRequest,
    lim       |-> NoLimiterRecord,
    fetched   |-> None,
    clientErr |-> NoError,
    result    |-> None,
    renewal   |-> "",
    validation |-> "",   \* what validateConfig returned to setup_confluence
    pending   |-> None,
    snap      |-> NoSnapshot ]

\* configSchema.parse: the string and number constraints of the schema.
configSchemaAccepts(data) ==
  /\ data.confluenceBaseUrl = BaseUrl
  /\ data.confluenceEmail = Email
  /\ data.confluenceApiToken # ""
  /\ data.rateLimitRequests > 0
  /\ data.rateLimitWindowMs > 0

\* NewConfluenceClient built from the configuration file as it is, where
\* there is one.
NewConfluenceClientFromFile(config, t) ==
  LET stored == IF IsSome(file) THEN Val(file) ELSE config
  IN  [ config |-> stored, client |-> NewInstance(stored, t) ]

\* new ConfluenceClient(config) at time t.
NewConfluenceClient(config, t) ==
  [ config |-> config, client |-> NewInstance(config, t) ]

\* The reference window, kept when `on`: it opens when the first client is
\* built and restarts with the first request sent after it elapsed, whatever
\* is rebuilt in between; count is the number of rate-limited requests sent
\* in it, held at RateLimitRequests + 1 once beyond the quota.
NoMonitor(on) == [ on |-> on, open |-> FALSE, start |-> 0, count |-> 0 ]

MonitorOpen(m, t) ==
  IF m.on /\ ~m.open THEN [m EXCEPT !.open = TRUE, !.start = t] ELSE m

MonitorSend(m, t) ==
  IF ~m.on THEN m
  ELSE IF WindowElapsed(t, m.start, RateLimitWindowMs)
    THEN [m EXCEPT !.start = t, !.count = 1]
  ELSE [m EXCEPT !.count = Min(m.count + 1, RateLimitRequests + 1)]

Init ==
  /\ now = 0
  /\ file \in {None, Some(MkConfig("tokA", None))}
  /\ cmConfig = None
  /\ confluenceClient = None
  /\ calls = [c \in Calls |-> IdleCall]
  /\ remoteVersion = 1
  /\ monitor = NoMonitor(FALSE)

\* Time passes.
Tick ==
  /\ now < MaxNow
  /\ now' = now + 1
  /\ UNCHANGED << file, cmConfig, confluenceClient, calls,
                  remoteVersion, monitor >>

\* loadConfig without configSchema.parse.
loadConfigUnparsed == IF IsSome(cmConfig) THEN cmConfig ELSE file

\* ConfigManager.loadConfig: the cached configuration, else the parsed file,
\* else None for the error it throws.
loadConfig ==
  IF IsSome(cmConfig) THEN cmConfig
  ELSE IF IsSome(file) /\ configSchemaAccepts(Val(file)) THEN file
  ELSE None

\* ConfluenceMCPServer.ensureConfigured succeeds.
CanConfigure == IsSome(confluenceClient) \/ IsSome(loadConfig)

\* EnsuredClient without the early return: a client is built on every call.
EnsuredClientRebuilt(t) ==
  IF IsSome(loadConfig) THEN Some(NewConfluenceClient(Val(loadConfig), t))
  ELSE confluenceClient

\* The client after ensureConfigured at time t.
EnsuredClient(t) ==
  IF IsSome(confluenceClient) THEN confluenceClient
  ELSE Some(NewConfluenceClient(Val(loadConfig), t))

\* Dispatch with a request interceptor that does not throw when the quota
\* is used up.
DispatchWithoutThrow(cc, own, t) ==
  LET r == RateLimitInterceptor(cc.client, cc.config, t)
  IN  [ cc            |-> [cc EXCEPT !.client = r.inst],
        rejected      |-> FALSE,
        authorization |-> MergeAuthorization(cc.client.authorization, own),
        lim           |-> LimiterRecord(cc.client, cc.config, t) ]

\* this.client.request(config) up to the network: mergeConfig, then the
\* request interceptor.  cc is the ConfluenceClient, own the headers the
\* config already carries.
Dispatch(cc, own, t) ==
  LET r == RateLimitInterceptor(cc.client, cc.config, t)
  IN  [ cc            |-> [cc EXCEPT !.client = r.inst],
        rejected      |-> r.rejected,
        authorization |-> MergeAuthorization(cc.client.authorization, own),
        lim           |-> LimiterRecord(cc.client, cc.config, t) ]

\* ------------------------------------------------ validateStorageFormat

\* A page body is a sequence of characters.  The regular expressions of
\* validateStorageFormat are evaluated on it as RegExp.test does: a match
\* may start anywhere, `.` excludes line terminators, ^ under /m matches at
\* the start of every line.

At(s, i) == IF i \in 1..Len(s) THEN s[i] ELSE ""

IsSpace(ch) == ch \in {" ", "\t", "\n", "\r"}

IsNewline(ch) == ch \in {"\n", "\r"}

\* The grave accent U+0060, which a string of this language cannot hold.
Backtick == "U+0060"

IsDigit(ch) == ch \in {"0", "1", "2", "3", "4", "5", "6", "7", "8", "9"}

\* The positions ^ matches at under the /m flag.
LineStarts(s) == {1} \cup {i + 1 : i \in {j \in 1..Len(s) : IsNewline(s[j])}}

\* The literal lit occurs in s at position i.
MatchAt(s, i, lit) ==
  /\ i >= 1
  /\ i + Len(lit) - 1 <= Len(s)
  /\ \A k \in 1..Len(lit) : s[i + k - 1] = lit[k]

HasLiteral(s, lit) == \E i \in 1..Len(s) : MatchAt(s, i, lit)

\* `.*` can cover s[a..b]: no line terminator in it.
DotStar(s, a, b) == \A k \in a..b : ~IsNewline(s[k])

\* \s* can cover s[a..b].
SpaceStar(s, a, b) == \A k \in a..b : IsSpace(s[k])

\* /^#+\s/m
MarkdownHeader(s) ==
  \E i \in LineStarts(s) : \E j \in i..Len(s) :
    /\ \A k \in i..j : s[k] = "#"
    /\ IsSpace(At(s, j + 1))

\* /\*\*.*\*\*/
MarkdownBold(s) ==
  \E i \in 1..Len(s) : \E k \in (i + 2)..Len(s) :
    /\ MatchAt(s, i, <<"*", "*">>)
    /\ MatchAt(s, k, <<"*", "*">>)
    /\ DotStar(s, i + 2, k - 1)

\* /\*[^*].*[^*]\*/
MarkdownItalic(s) ==
  \E i \in 1..Len(s) : \E k \in (i + 2)..Len(s) :
    /\ s[i] = "*"
    /\ s[i + 1] # "*"
    /\ s[k] # "*"
    /\ At(s, k + 1) = "*"
    /\ DotStar(s, i + 2, k - 1)

\* /```[\s\S]*?```/
MarkdownCodeBlock(s) ==
  \E i \in 1..Len(s) : \E k \in (i + 3)..Len(s) :
    /\ MatchAt(s, i, <<Backtick, Backtick, Backtick>>)
    /\ MatchAt(s, k, <<Backtick, Backtick, Backtick>>)

\* /`[^`]+`/
MarkdownInlineCode(s) ==
  \E i \in 1..Len(s) : \E k \in (i + 2)..Len(s) :
    /\ s[i] = Backtick
    /\ s[k] = Backtick
    /\ \A j \in (i + 1)..(k - 1) : s[j] # Backtick

\* /^\s*[-*+]\s/m
MarkdownUnorderedList(s) ==
  \E i \in LineStarts(s) : \E j \in i..Len(s) :
    /\ SpaceStar(s, i, j - 1)
    /\ s[j] \in {"-", "*", "+"}
    /\ IsSpace(At(s, j + 1))

\* /^\s*\d+\.\s/m
MarkdownOrderedList(s) ==
  \E i \in LineStarts(s) : \E j \in i..Len(s) : \E d \in j..Len(s) :
    /\ SpaceStar(s, i, j - 1)
    /\ \A k \in j..d : IsDigit(s[k])
    /\ At(s, d + 1) = "."
    /\ IsSpace(At(s, d + 2))

\* /\[.*?\]\(.*?\)/
MarkdownLink(s) ==
  \E i \in 1..Len(s) : \E k \in (i + 1)..Len(s) : \E m \in (k + 2)..Len(s) :
    /\ s[i] = "["
    /\ s[k] = "]"
    /\ s[k + 1] = "("
    /\ s[m] = ")"
    /\ DotStar(s, i + 1, k - 1)
    /\ DotStar(s, k + 2, m - 1)

\* markdownPatterns: some pattern tests true.
MatchesMarkdown(s) ==
  \/ MarkdownHeader(s)
  \/ MarkdownBold(s)
  \/ MarkdownItalic(s)
  \/ MarkdownCodeBlock(s)
  \/ MarkdownInlineCode(s)
  \/ MarkdownUnorderedList(s)
  \/ MarkdownOrderedList(s)
  \/ MarkdownLink(s)

\* /^h[1-6]\./m
AtlassianHeader(s) ==
  \E i \in LineStarts(s) :
    /\ At(s, i) = "h"
    /\ At(s, i + 1) \in {"1", "2", "3", "4", "5", "6"}
    /\ At(s, i + 2) = "."

\* /\{panel.*?\}/ and /\{code.*?\}/: the opening literal, then `}` on the
\* same line.
MacroWithParams(s, open) ==
  \E i \in 1..Len(s) : \E k \in (i + Len(open))..Len(s) :
    /\ MatchAt(s, i, open)
    /\ s[k] = "}"
    /\ DotStar(s, i + Len(open), k - 1)

\* /\{\{.*?\}\}/
AtlassianInlineCode(s) ==
  \E i \in 1..Len(s) : \E k \in (i + 2)..Len(s) :
    /\ MatchAt(s, i, <<"{", "{">>)
    /\ MatchAt(s, k, <<"}", "}">>)
    /\ DotStar(s, i + 2, k - 1)

\* atlassianPatterns: some pattern tests true.
MatchesAtlassian(s) ==
  \/ AtlassianHeader(s)
  \/ HasLiteral(s, <<"{", "i", "n", "f", "o", "}">>)
  \/ MacroWithParams(s, <<"{", "p", "a", "n", "e", "l">>)
  \/ MacroWithParams(s, <<"{", "c", "o", "d", "e">>)
  \/ AtlassianInlineCode(s)
  \/ HasLiteral(s, <<"{", "t", "i", "p", "}">>)
  \/ HasLiteral(s, <<"{", "w", "a", "r", "n", "i", "n", "g", "}">>)
  \/ HasLiteral(s, <<"{", "n", "o", "t", "e", "}">>)

\* storageFormatPatterns: /<[^>]*>/, /<p>/, /<ac:/, /<ri:/.
MatchesStorageFormat(s) ==
  \/ \E i \in 1..Len(s) : \E k \in (i + 1)..Len(s) : s[i] = "<" /\ s[k] = ">"
  \/ HasLiteral(s, <<"<", "p", ">">>)
  \/ HasLiteral(s, <<"<", "a", "c", ":">>)
  \/ HasLiteral(s, <<"<", "r", "i", ":">>)

\* The worked example every format error ends with.
StorageFormatExample ==
  "Example Storage Format: <p>This is a paragraph with <strong>bold text</strong>.</p>"

\* validateStorageFormat: None when it returns, else the message of the
\* Error it throws.
validateStorageFormat(content) ==
  IF MatchesMarkdown(content)
    THEN Some(<<FailureGlyph, " MARKDOWN FORMAT DETECTED", StorageFormatExample>>)
  ELSE IF MatchesAtlassian(content)
    THEN Some(<<FailureGlyph, " ATLASSIAN MARKUP FORMAT DETECTED", StorageFormatExample>>)
  ELSE IF ~MatchesStorageFormat(content)
    THEN Some(<<FailureGlyph, " INVALID FORMAT", StorageFormatExample>>)
  ELSE None

\* Page bodies the tools are called with.
StorageParagraph == <<"<", "p", ">", "t", "<", "/", "p", ">">>

MarkdownHeading == <<"#", " ", "H">>

WikiHeading == <<"h", "1", ".", " ", "H">>

PlainText == <<"t", "e", "x", "t">>

\* **b**
BoldMarkdown == <<"*", "*", "b", "*", "*">>

\* {info}
InfoMacro == <<"{", "i", "n", "f", "o", "}">>

\* <p>**b**</p>: a paragraph whose text holds two pairs of asterisks.
TaggedAsterisks ==
  <<"<", "p", ">", "*", "*", "b", "*", "*", "<", "/", "p", ">">>

Contents ==
  { StorageParagraph, MarkdownHeading, WikiHeading, PlainText, <<>>,
    BoldMarkdown, InfoMacro, TaggedAsterisks }


\* ------------------------------------------------------- results of a call

SuccessGlyph == "(v)"

Finish(call, isError, text) ==
  [call EXCEPT !.pc = "done", !.result = TextResult(isError, text)]

\* ExecError with the text of the error alone.
ExecErrorBare(tool, message) == message

\* The catch of the CallToolRequestSchema handler.
ExecError(tool, message) ==
  <<FailureGlyph, " Error executing tool ", tool, ": ">> \o message

NotConfiguredMessage ==
  <<"No valid configuration found. Please use the setup_confluence tool to configure the connection.">>

ZodErrorMessage == <<"ZodError">>

\* error.response?.status as updatePage's catch reads it: `response` of a
\* ConfluenceAPIError is the remote body, not the axios response.
ResponseStatusOf(err) ==
  IF IsSome(err.response) THEN Val(err.response).status ELSE NoStatus

\* The catch around this.client.put in updatePage: the error it throws.
UpdateCatch(err) ==
  IF ResponseStatusOf(err) = 409
    THEN PlainError(<<"Version conflict: The page was modified by another user. Please try again.">>)
  ELSE IF ResponseStatusOf(err) = 400
    THEN PlainError(<<"Validation error: ", "Invalid request data">>)
  ELSE err

\* The URIs the switch of the ReadResourceRequestSchema handler knows.
StorageFormatSpecUri == "confluence://storage-format-spec"

ResourceUris ==
  {"confluence://spaces", "confluence://recent-pages", "confluence://user",
   StorageFormatSpecUri}

\* The result of a resource read: one content block.
ResourceContents(isError, uri, mimeType, text) ==
  Some([isError |-> isError, uri |-> uri, mimeType |-> mimeType, text |-> text])

\* The catch of the ReadResourceRequestSchema handler.
LoadError(uri, message) ==
  ResourceContents(TRUE, uri, "text/plain",
                   <<FailureGlyph, " Error loading resource: ">> \o message)

\* A client method rejected with err: what the handler of the tool, or of
\* the resource, makes of it.
ClientFailed(call, err) ==
  LET c1 == [call EXCEPT !.clientErr = err]
  IN  IF call.tool = "resources/read"
        THEN [c1 EXCEPT !.pc = "done", !.result = LoadError(call.uri, err.message)]
      ELSE IF call.tool = "create_page"
        THEN Finish(c1, TRUE, <<FailureGlyph, " Error creating page: ">> \o err.message)
      ELSE IF call.tool = "update_page" /\ call.phase = "write"
        THEN Finish(c1, TRUE,
               <<FailureGlyph, " Error updating page: ">> \o UpdateCatch(err).message)
      ELSE IF call.tool = "update_page"
        THEN Finish(c1, TRUE, <<FailureGlyph, " Error updating page: ">> \o err.message)
      ELSE Finish(c1, TRUE, ExecError(call.tool, err.message))

\* A client method returned: the success text of the handler.
ClientSucceeded(call) ==
  IF call.tool = "resources/read"
    THEN [call EXCEPT !.pc = "done",
                      !.result = ResourceContents(FALSE, call.uri,
                                                  "application/json", <<"JSON">>)]
  ELSE IF call.tool = "create_page"
    THEN Finish(call, FALSE, <<SuccessGlyph, " Page successfully created!", "JSON">>)
  ELSE IF call.tool = "update_page"
    THEN Finish(call, FALSE, <<SuccessGlyph, " Page successfully updated!", "JSON">>)
  ELSE Finish(call, FALSE, <<"JSON">>)

\* The tool names the switch of the CallToolRequestSchema handler knows.
DeclaredTools == ReadTools \cup {"create_page", "update_page"}

\* validateStorageFormat on the bodies the tools are called with.
FormatVerdict == [b \in Contents |-> validateStorageFormat(b)]

\* LocalFailure with the call of validateStorageFormat left out.
LocalFailureOfSchemaOnly(tool, args) ==
  IF ~args.ok THEN Some(ExecError(tool, ZodErrorMessage)) ELSE None

\* schema.parse and validateStorageFormat of a handler, before any request:
\* None, or the text of the error result.
LocalFailure(tool, args) ==
  IF tool \notin DeclaredTools
    THEN Some(ExecError(tool, <<"Unknown tool: ", tool>>))
  ELSE IF ~args.ok
    THEN Some(ExecError(tool, ZodErrorMessage))
  ELSE IF tool \in {"create_page", "update_page"}
          /\ IsSome(FormatVerdict[Val(args.content)])
    THEN Some(ExecError(tool, Val(FormatVerdict[Val(args.content)])))
  ELSE None

\* The pageData of createPage.
PageData(title, spaceKey, body, version) ==
  Some([ title |-> title, spaceKey |-> spaceKey, body |-> body,
         version |-> version ])

\* The first request of a tool: its method, its payload, the phase it opens.
FirstRequest(tool, args) ==
  IF tool = "create_page"
    THEN [ method |-> "POST", phase |-> "write",
           data |-> PageData(Val(args.title), "DEMO", Val(args.content), 0) ]
  ELSE IF tool = "update_page"
    THEN [ method |-> "GET", phase |-> "fetch", data |-> None ]
  ELSE [ method |-> "GET", phase |-> "read", data |-> None ]

\* The Error the request interceptor throws.
ClientSideLimit == RateLimitError(<<"Client-side rate limit exceeded">>)

\* ResponseErrorInterceptor with a 409 handled like a 401.
ResponseErrorInterceptorRenewingOnConflict(call, error) ==
  IF IsUnauthorized(error) \/ error.status = 409
    THEN [call EXCEPT !.pc = "renewing", !.req.renewals = @ + 1]
    ELSE ClientFailed(call, ClassifyError(error))

\* The rejected handler of interceptors.response.use up to its first await:
\* on 401 it awaits configManager.requestTokenRenewal(), else it throws the
\* classified error to the caller of the client method.  An error thrown by
\* the request interceptor skips the dispatch and arrives here as well.
ResponseErrorInterceptor(call, error) ==
  IF IsUnauthorized(error)
    THEN [call EXCEPT !.pc = "renewing", !.req.renewals = @ + 1]
    ELSE ClientFailed(call, ClassifyError(error))

\* A client method issues a new request through cc at time t; snap is the
\* state the request starts from.
Issue(call, cc, method, data, snap, t) ==
  LET d  == Dispatch(cc, None, t)
      c1 == [call EXCEPT !.req = NewRequest(method, data), !.lim = d.lim,
                         !.clientErr = NoError, !.snap = snap]
  IN  [ cc   |-> d.cc,
        sent |-> ~d.rejected,
        call |-> IF d.rejected
                   THEN ResponseErrorInterceptor(c1, AsRejection(ClientSideLimit))
                   ELSE [c1 EXCEPT
                           !.pc = "inflight",
                           !.req.own = Some(d.authorization),
                           !.req.sent = 1,
                           !.req.sentWith = <<d.authorization>>] ]

Snapshot(f, cm, cc) ==
  [ file |-> f, cmConfig |-> cm,
    config |-> IF IsSome(cc) THEN Some(Val(cc).config) ELSE None,
    authorization |-> IF IsSome(cc) THEN Some(Val(cc).client.authorization)
                      ELSE None ]


\* ----------------------------------------------------------- tool calls

\* The CallToolRequestSchema handler for every tool but setup_confluence, up
\* to its first await on the network: ensureConfigured, the handler's
\* schema.parse and validateStorageFormat, then the client method's request.
StartTool(c, tool, args) ==
  /\ calls[c].pc = "idle"
  /\ LET base == [IdleCall EXCEPT !.tool = tool, !.args = args]
     IN  IF ~CanConfigure
           THEN /\ calls' = [calls EXCEPT
                    ![c] = Finish(base, TRUE, ExecError(tool, NotConfiguredMessage))]
                /\ UNCHANGED << cmConfig, confluenceClient, monitor >>
           ELSE LET cm      == IF IsSome(confluenceClient) THEN cmConfig ELSE loadConfig
                    cc      == Val(EnsuredClient(now))
                    opened  == MonitorOpen(monitor, now)
                    failure == LocalFailure(tool, args)
                    first   == FirstRequest(tool, args)
                    out     == Issue([base EXCEPT !.phase = first.phase], cc,
                                     first.method, first.data,
                                     Snapshot(file, cm, Some(cc)), now)
                IN  /\ cmConfig' = cm
                    /\ IF IsSome(failure)
                         THEN /\ calls' = [calls EXCEPT
                                  ![c] = Finish(base, TRUE, Val(failure))]
                              /\ confluenceClient' = Some(cc)
                              /\ monitor' = opened
                         ELSE /\ calls' = [calls EXCEPT ![c] = out.call]
                              /\ confluenceClient' = Some(out.cc)
                              /\ monitor' = IF out.sent THEN MonitorSend(opened, now)
                                            ELSE opened
  /\ UNCHANGED << now, file, remoteVersion >>

\* LocalResource with the static document served before ensureConfigured.
LocalResourceStaticFirst(uri, configured) ==
  IF uri = StorageFormatSpecUri
    THEN ResourceContents(FALSE, uri, "text/markdown", <<"# Confluence Storage Format Specification">>)
  ELSE IF ~configured
    THEN LoadError(uri, NotConfiguredMessage)
  ELSE IF uri \notin ResourceUris
    THEN LoadError(uri, <<"Unknown resource: ", uri>>)
  ELSE None

\* What the ReadResourceRequestSchema handler answers without a request:
\* ensureConfigured first, then the switch on the URI.  None when the URI
\* is one of the three read through the client.
LocalResource(uri, configured) ==
  IF ~configured
    THEN LoadError(uri, NotConfiguredMessage)
  ELSE IF uri = StorageFormatSpecUri
    THEN ResourceContents(FALSE, uri, "text/markdown", <<"# Confluence Storage Format Specification">>)
  ELSE IF uri \notin ResourceUris
    THEN LoadError(uri, <<"Unknown resource: ", uri>>)
  ELSE None

\* The ReadResourceRequestSchema handler up to its first await on the
\* network: ensureConfigured, then getSpaces, getRecentPages or
\* getCurrentUser, one GET each, or the static document.
ReadResource(c) ==
  \E uri \in ResourceUris \cup {"confluence://no-such-resource"} :
    /\ calls[c].pc = "idle"
    /\ LET base  == [IdleCall EXCEPT !.tool = "resources/read", !.uri = uri]
           local == LocalResource(uri, CanConfigure)
       IN  IF ~CanConfigure
             THEN /\ calls' = [calls EXCEPT
                      ![c] = [base EXCEPT !.pc = "done", !.result = local]]
                  /\ UNCHANGED << cmConfig, confluenceClient, monitor >>
             ELSE LET cm     == IF IsSome(confluenceClient) THEN cmConfig ELSE loadConfig
                      cc     == Val(EnsuredClient(now))
                      opened == MonitorOpen(monitor, now)
                      out    == Issue([base EXCEPT !.phase = "read"], cc, "GET", None,
                                      Snapshot(file, cm, Some(cc)), now)
                  IN  /\ cmConfig' = cm
                      /\ IF IsSome(local)
                           THEN /\ calls' = [calls EXCEPT
                                    ![c] = [base EXCEPT !.pc = "done", !.result = local]]
                                /\ confluenceClient' = Some(cc)
                                /\ monitor' = opened
                           ELSE /\ calls' = [calls EXCEPT ![c] = out.call]
                                /\ confluenceClient' = Some(out.cc)
                                /\ monitor' = IF out.sent THEN MonitorSend(opened, now)
                                              ELSE opened
    /\ UNCHANGED << now, file, remoteVersion >>

\* search_confluence, get_page, get_space, list_spaces, search_pages and
\* get_recent_pages: one GET each.
CallReadTool(c, tools) ==
  \E tool \in tools, ok \in BOOLEAN :
    StartTool(c, tool, [NoArgs EXCEPT !.ok = ok])

\* A tool name the switch does not know: ensureConfigured, then the default
\* branch throws.
CallUnknownTool(c) ==
  \E ok \in BOOLEAN : StartTool(c, "no_such_tool", [NoArgs EXCEPT !.ok = ok])

WriteArgs ==
  { [NoArgs EXCEPT !.ok = ok, !.title = title, !.content = content] :
      ok \in BOOLEAN, title \in {None, Some("T1")},
      content \in {None} \cup {Some(b) : b \in Contents} }

\* handleCreatePage's schema wants title and content.
CallCreatePage(c) ==
  \E args \in WriteArgs :
    /\ args.ok <=> (IsSome(args.title) /\ IsSome(args.content))
    /\ StartTool(c, "create_page", args)

\* handleUpdatePage's schema wants content; title is optional.
CallUpdatePage(c) ==
  \E args \in WriteArgs :
    /\ args.ok <=> IsSome(args.content)
    /\ StartTool(c, "update_page", args)

\* The remote answers the request in flight with a failure status, or not
\* at all (a timeout): axios rejects and the response-error interceptor runs.
RespondsWith(c, status, body) ==
  /\ calls[c].pc = "inflight"
  /\ status \in {NoStatus, 401} => body = None
  /\ status = 401 => calls[c].req.renewals < MaxRenewals
  /\ LET c1 == [calls[c] EXCEPT !.req.answered = TRUE, !.req.status = status,
                                !.req.body = body]
     IN  calls' = [calls EXCEPT
           ![c] = ResponseErrorInterceptor(c1, AxiosError(status, body))]
  /\ UNCHANGED << now, file, cmConfig, confluenceClient, remoteVersion,
                  monitor >>

RespondFailure(c) ==
  \E status \in FailureStatuses, body \in RemoteBodies :
    RespondsWith(c, status, body)

\* UpdatedConfig with tokenExpiryDate left as it was.
UpdatedConfigKeepingExpiry(config, newToken, t) ==
  [config EXCEPT !.confluenceApiToken = newToken,
                 !.lastValidated = Some(t)]

\* ConfigManager.updateToken's updatedConfig at time t.
UpdatedConfig(config, newToken, t) ==
  [config EXCEPT !.confluenceApiToken = newToken,
                 !.tokenExpiryDate = None,
                 !.lastValidated = Some(t)]

\* requestTokenRenewal resolves: the prompt returned newToken, the remote
\* accepted it and the file was written.  The interceptor then rebuilds the
\* client and resubmits error.config through it.
RenewsWith(c, newToken) ==
  /\ calls[c].pc = "renewing"
  /\ IsSome(cmConfig)
  /\ LET call    == calls[c]
         updated == UpdatedConfig(Val(cmConfig), newToken, now)
         rebuilt == NewConfluenceClient(updated, now)
         d       == Dispatch(rebuilt, call.req.own, now)
         c1      == [call EXCEPT !.req.rebuilds = @ + 1, !.lim = d.lim,
                                  !.renewal = "renewed"]
     IN  /\ file' = Some(updated)
         /\ cmConfig' = Some(updated)
         /\ confluenceClient' = Some(d.cc)
         /\ IF d.rejected
              THEN /\ calls' = [calls EXCEPT
                        ![c] = ResponseErrorInterceptor(c1, AsRejection(ClientSideLimit))]
                   /\ monitor' = monitor
              ELSE /\ calls' = [calls EXCEPT
                        ![c] = [c1 EXCEPT
                                  !.pc = "inflight",
                                  !.req.sent = @ + 1,
                                  !.req.sentWith = Append(@, d.authorization)]]
                   /\ monitor' = MonitorSend(monitor, now)
  /\ UNCHANGED << now, remoteVersion >>

RenewSucceeds(c) == \E newToken \in Tokens : RenewsWith(c, newToken)

\* requestTokenRenewal rejects: the prompt gave no token, the remote refused
\* the new token, or the file could not be written.  The interceptor's catch
\* throws TokenExpiredError.
RenewFails(c) ==
  \E why \in {"no token", "invalid token", "write failed"} :
    /\ calls[c].pc = "renewing"
    /\ calls' = [calls EXCEPT
         ![c] = ClientFailed([calls[c] EXCEPT !.renewal = why],
                             TokenExpiredError(<<"Token renewal failed">>))]
    /\ UNCHANGED << now, file, cmConfig, confluenceClient,
                    remoteVersion, monitor >>


\* ------------------------------------------------------------- updatePage

\* version.number of updateData with the off-by-one left out.
SameVersionNumber(current) == current

\* currentPage.version.number + 1
NextVersionNumber(current) == current + 1

\* currentPage.body?.storage?.value || ''
CurrentContent(page) == IF IsSome(page.body) THEN Val(page.body) ELSE <<>>

FinalContent(page, args) ==
  IF IsSome(args.content) THEN Val(args.content) ELSE CurrentContent(page)

\* FinalTitle with the fetched title forgotten.
SuppliedTitleOnly(page, args) ==
  IF IsSome(args.title) THEN Val(args.title) ELSE ""

FinalTitle(page, args) ==
  IF IsSome(args.title) THEN Val(args.title) ELSE page.title

\* UpdateRefused without the check of the resulting content.
UpdateRefusedUnlessIncomplete(page, args) ==
  IF ~IsSome(page.version)
    THEN Some(PlainError(<<"Unable to retrieve page version information">>))
  ELSE IF ~IsSome(page.space)
    THEN Some(PlainError(<<"Unable to retrieve page space information">>))
  ELSE None

\* The checks of updatePage between the fetch and the write: None, or the
\* Error it throws.
UpdateRefused(page, args) ==
  IF ~IsSome(page.version)
    THEN Some(PlainError(<<"Unable to retrieve page version information">>))
  ELSE IF ~IsSome(page.space)
    THEN Some(PlainError(<<"Unable to retrieve page space information">>))
  ELSE IF FinalContent(page, args) = <<>>
    THEN Some(PlainError(<<"Cannot update page with empty content. Provide content or ensure the page has existing content.">>))
  ELSE None

\* updateData of updatePage.
UpdateData(page, args) ==
  PageData(FinalTitle(page, args), Val(page.space), FinalContent(page, args),
           NextVersionNumber(Val(page.version)))

\* The page a GET /content/{id} returns: the remote may leave out the
\* version or the space.
RemotePage(hasVersion, hasSpace) ==
  [ version |-> IF hasVersion THEN Some(remoteVersion) ELSE None,
    space   |-> IF hasSpace THEN Some("DEMO") ELSE None,
    title   |-> "T0",
    body    |-> Some(StorageParagraph) ]

\* The fetch of updatePage returns page: the checks, then the PUT.
FetchReturnsPage(c, page) ==
  /\ calls[c].pc = "inflight"
  /\ calls[c].tool = "update_page"
  /\ calls[c].phase = "fetch"
  /\ LET call    == calls[c]
         c1      == [call EXCEPT !.req.answered = TRUE,
                                  !.req.status = SuccessStatus,
                                  !.fetched = Some(page)]
         refused == UpdateRefused(page, call.args)
         cc      == Val(confluenceClient)
         out     == Issue([c1 EXCEPT !.phase = "write"], cc, "PUT",
                          UpdateData(page, call.args),
                          Snapshot(file, cmConfig, Some(cc)), now)
     IN  IF IsSome(refused)
           THEN /\ calls' = [calls EXCEPT ![c] = ClientFailed(c1, Val(refused))]
                /\ UNCHANGED << confluenceClient, monitor >>
           ELSE /\ calls' = [calls EXCEPT ![c] = out.call]
                /\ confluenceClient' = Some(out.cc)
                /\ monitor' = IF out.sent THEN MonitorSend(monitor, now) ELSE monitor
  /\ UNCHANGED << now, file, cmConfig, remoteVersion >>

\* The fetch of an update_page tool call returns.
FetchReturns(c) ==
  \E hasVersion \in BOOLEAN, hasSpace \in BOOLEAN :
    FetchReturnsPage(c, RemotePage(hasVersion, hasSpace))

\* The remote accepts a write whose version is its current version + 1.
RemoteAccepts(req) ==
  req.method = "PUT" =>
    /\ Val(req.data).version = remoteVersion + 1
    /\ Val(req.data).version <= MaxVersion

\* The remote answers 2xx to a read, a create or the PUT of an update.
RespondSuccess(c) ==
  /\ calls[c].pc = "inflight"
  /\ ~(calls[c].tool = "update_page" /\ calls[c].phase = "fetch")
  /\ RemoteAccepts(calls[c].req)
  /\ LET call == calls[c]
         c1   == [call EXCEPT !.req.answered = TRUE, !.req.status = SuccessStatus]
     IN  /\ calls' = [calls EXCEPT ![c] = ClientSucceeded(c1)]
         /\ remoteVersion' = IF call.req.method = "PUT"
                               THEN Val(call.req.data).version ELSE remoteVersion
  /\ UNCHANGED << now, file, cmConfig, confluenceClient, monitor >>

\* Somebody else edits the page.
RemoteEdit ==
  /\ remoteVersion < MaxVersion
  /\ remoteVersion' = remoteVersion + 1
  /\ UNCHANGED << now, file, cmConfig, confluenceClient, calls,
                  monitor >>

\* -------------------------------------------------------- setup_confluence

\* ConfigError as the outer catch of the CallToolRequestSchema handler would
\* word it.
ConfigErrorAsToolError(message) ==
  <<FailureGlyph, " Error executing tool ", "setup_confluence", ": ">> \o message

\* The catch of handleSetupConfluence.
ConfigError(message) == <<FailureGlyph, " Configuration error: ">> \o message

\* handleSetupConfluence up to its await on validateConfig: None, or the
\* message of the error thrown before it.
SetupRefused(args) ==
  IF args.action = "setup"
    THEN IF ~args.hasUrlAndEmail \/ args.token = ""
           THEN Some(<<"For setup, confluenceBaseUrl, confluenceEmail and confluenceApiToken are required">>)
           ELSE None
  ELSE IF args.action = "update_token"
    THEN IF args.token = ""
           THEN Some(<<"For update_token, confluenceApiToken is required">>)
         ELSE IF ~IsSome(cmConfig)
           THEN Some(<<"Keine Konfiguration geladen">>)
         ELSE None
  ELSE IF ~IsSome(cmConfig)
    THEN Some(<<"Konfiguration nicht geladen. Rufen Sie loadConfig() auf.">>)
  ELSE None

\* SetupCandidate built from the arguments whatever the action.
SetupCandidateFromArgs(args, t) == MkConfig(args.token, None)

\* The configuration validateConfig is called with.
SetupCandidate(args, t) ==
  IF args.action = "setup" THEN MkConfig(args.token, None)
  ELSE IF args.action = "update_token"
    THEN UpdatedConfig(Val(cmConfig), args.token, t)
  ELSE Val(cmConfig)

SetupArgs ==
  { [NoArgs EXCEPT !.ok = ok, !.action = action, !.token = token,
                   !.hasUrlAndEmail = both] :
      ok \in BOOLEAN, action \in {"setup", "update_token", "validate"},
      token \in Tokens \cup {""}, both \in BOOLEAN }

\* The CallToolRequestSchema handler for setup_confluence, which runs
\* without ensureConfigured, up to the await on validateConfig.
StartSetupWith(c, args) ==
  /\ calls[c].pc = "idle"
  /\ LET base == [IdleCall EXCEPT !.tool = "setup_confluence", !.args = args]
     IN  calls' = [calls EXCEPT ![c] =
           IF ~args.ok
             THEN Finish(base, TRUE, ExecError("setup_confluence", ZodErrorMessage))
           ELSE IF IsSome(SetupRefused(args))
             THEN Finish(base, TRUE, ConfigError(Val(SetupRefused(args))))
           ELSE [base EXCEPT
                   !.pc = "validating",
                   !.pending = Some(SetupCandidate(args, now)),
                   !.snap = Snapshot(file, cmConfig, confluenceClient)]]
  /\ UNCHANGED << now, file, cmConfig, confluenceClient,
                  remoteVersion, monitor >>

StartSetup(c) ==
  \E args \in SetupArgs :
    /\ ~args.ok => (args.action = "setup" /\ args.token = "" /\ ~args.hasUrlAndEmail)
    /\ StartSetupWith(c, args)

\* Persisting whatever validateConfig returned.
PersistUnvalidated(action, isValid) == TRUE

\* if (isValid) of the setup branch and of ConfigManager.updateToken: the
\* configuration is persisted only when validateConfig returned true.
PersistsAfter(action, isValid) == isValid

\* validateConfig returned valid; saved tells whether fs.writeJson worked.
FinishSetup(c) ==
  \E valid \in BOOLEAN, saved \in BOOLEAN :
    /\ calls[c].pc = "validating"
    /\ (calls[c].args.action = "validate" \/ ~valid) => saved
    /\ LET call   == [calls[c] EXCEPT
                         !.validation = IF valid THEN "valid" ELSE "invalid"]
           action == call.args.action
           config == IF action = "setup"
                       THEN [Val(call.pending) EXCEPT !.lastValidated = Some(now)]
                       ELSE Val(call.pending)
       IN  IF action = "validate"
             THEN /\ calls' = [calls EXCEPT ![c] =
                       IF valid
                         THEN Finish(call, FALSE, <<SuccessGlyph, " Configuration is valid">>)
                         ELSE Finish(call, TRUE,
                                <<FailureGlyph, " Configuration is invalid - token may have expired">>)]
                  /\ UNCHANGED << file, cmConfig, confluenceClient, monitor >>
           ELSE IF ~PersistsAfter(action, valid)
             THEN /\ calls' = [calls EXCEPT ![c] = Finish(call, TRUE, ConfigError(
                       IF action = "setup"
                         THEN <<"Configuration invalid - please check your inputs">>
                         ELSE <<"New token is invalid">>))]
                  /\ UNCHANGED << file, cmConfig, confluenceClient, monitor >>
           ELSE IF ~saved
             THEN /\ calls' = [calls EXCEPT ![c] =
                       Finish(call, TRUE, ConfigError(<<"write failed">>))]
                  /\ UNCHANGED << file, cmConfig, confluenceClient, monitor >>
           ELSE /\ file' = Some(config)
                /\ cmConfig' = Some(config)
                /\ IF action = "update_token" /\ ~IsSome(confluenceClient)
                     THEN /\ calls' = [calls EXCEPT ![c] = Finish(call, TRUE,
                               ConfigError(<<"Cannot read properties of null">>))]
                          /\ UNCHANGED << confluenceClient, monitor >>
                     ELSE /\ calls' = [calls EXCEPT ![c] = Finish(call, FALSE,
                               IF action = "setup"
                                 THEN <<SuccessGlyph, " Confluence configuration successfully saved and validated!">>
                                 ELSE <<SuccessGlyph, " API token successfully updated!">>)]
                          /\ confluenceClient' = Some(NewConfluenceClient(config, now))
                          /\ monitor' = MonitorOpen(monitor, now)
    /\ UNCHANGED << now, remoteVersion >>

\* The result of a finished call is written to the transport.
Return(c) ==
  /\ calls[c].pc = "done"
  /\ calls' = [calls EXCEPT ![c] = IdleCall]
  /\ UNCHANGED << now, file, cmConfig, confluenceClient, remoteVersion, monitor >>

\* ------------------------------------------------------------ specification

\* The transport hands the server one call at a time.
Next ==
  \/ Tick
  \/ RemoteEdit
  \/ CallReadTool(1, ReadTools)
  \/ CallUnknownTool(1)
  \/ CallCreatePage(1)
  \/ CallUpdatePage(1)
  \/ StartSetup(1)
  \/ FinishSetup(1)
  \/ RespondSuccess(1)
  \/ FetchReturns(1)
  \/ RespondFailure(1)
  \/ RenewSucceeds(1)
  \/ RenewFails(1)
  \/ Return(1)

Spec == Init /\ [][Next]_vars


\* The same server with the reference window kept, called with get_page and
\* setup_confluence only.
InitQuota ==
  /\ now = 0
  /\ file \in {None, Some(MkConfig("tokA", None))}
  /\ cmConfig = None
  /\ confluenceClient = None
  /\ calls = [c \in Calls |-> IdleCall]
  /\ remoteVersion = 1
  /\ monitor = NoMonitor(TRUE)

NextQuota ==
  \/ Tick
  \/ CallReadTool(1, {"get_page"})
  \/ StartSetup(1)
  \/ FinishSetup(1)
  \/ RespondSuccess(1)
  \/ RespondFailure(1)
  \/ RenewSucceeds(1)
  \/ RenewFails(1)
  \/ Return(1)

SpecQuota == InitQuota /\ [][NextQuota]_vars

\* The client alone: ConfluenceClient.updatePage(pageId, title?, content?)
\* called on a configured client with or without a title and a content, and
\* a remote whose page may have no body or an empty one.
InitClient ==
  /\ now = 0
  /\ file = Some(MkConfig("tokA", None))
  /\ cmConfig = file
  /\ confluenceClient = Some(NewConfluenceClient(Val(file), 0))
  /\ calls = [c \in Calls |-> IdleCall]
  /\ remoteVersion = 1
  /\ monitor = NoMonitor(FALSE)

\* Bodies a fetched page may have: none, the empty string, a paragraph.
FetchedBodies == {None, Some(<<>>), Some(StorageParagraph)}

\* updatePage is called: its first statement is the fetch.
DirectUpdatePage(c) ==
  \E title \in {None, Some("T1")}, content \in FetchedBodies :
    /\ calls[c].pc = "idle"
    /\ IsSome(confluenceClient)
    /\ LET args == [NoArgs EXCEPT !.title = title, !.content = content]
           base == [IdleCall EXCEPT !.tool = "update_page", !.args = args,
                                    !.phase = "fetch"]
           out  == Issue(base, Val(confluenceClient), "GET", None,
                         Snapshot(file, cmConfig, confluenceClient), now)
       IN  /\ calls' = [calls EXCEPT ![c] = out.call]
           /\ confluenceClient' = Some(out.cc)
           /\ monitor' = IF out.sent THEN MonitorSend(monitor, now) ELSE monitor
    /\ UNCHANGED << now, file, cmConfig, remoteVersion >>

\* The fetch returns a page with any of the bodies.
FetchReturnsAny(c) ==
  \E hasVersion \in BOOLEAN, hasSpace \in BOOLEAN, body \in FetchedBodies :
    FetchReturnsPage(c, [RemotePage(hasVersion, hasSpace) EXCEPT !.body = body])

NextClient ==
  \/ Tick
  \/ RemoteEdit
  \/ DirectUpdatePage(1)
  \/ FetchReturnsAny(1)
  \/ RespondSuccess(1)
  \/ RespondFailure(1)
  \/ RenewSucceeds(1)
  \/ RenewFails(1)
  \/ Return(1)

SpecClient == InitClient /\ [][NextClient]_vars

\* The server started on a configuration file written earlier, which may
\* hold a tokenExpiryDate, and called with get_page and setup_confluence.
ExpiringConfig ==
  [MkConfig("tokA", Some(0)) EXCEPT !.tokenExpiryDate = Some("2026-01-01T00:00:00Z")]

InitSetup ==
  /\ now = 0
  /\ file \in {None, Some(ExpiringConfig)}
  /\ cmConfig = None
  /\ confluenceClient = None
  /\ calls = [c \in Calls |-> IdleCall]
  /\ remoteVersion = 1
  /\ monitor = NoMonitor(FALSE)

NextSetup ==
  \/ Tick
  \/ CallReadTool(1, {"get_page"})
  \/ StartSetup(1)
  \/ FinishSetup(1)
  \/ RespondSuccess(1)
  \/ RespondFailure(1)
  \/ RenewSucceeds(1)
  \/ RenewFails(1)
  \/ Return(1)

SpecSetup == InitSetup /\ [][NextSetup]_vars

\* The server and an operator who deletes, breaks or rewrites the
\* configuration file while the server runs.
InvalidStored == MkConfig("", None)

StoredFiles == {None, Some(InvalidStored), Some(MkConfig("tokA", None))}

InitFile ==
  /\ now = 0
  /\ file \in StoredFiles
  /\ cmConfig = None
  /\ confluenceClient = None
  /\ calls = [c \in Calls |-> IdleCall]
  /\ remoteVersion = 1
  /\ monitor = NoMonitor(FALSE)

\* The operator deletes, breaks or rewrites the file.
OperatorEditsFile ==
  /\ file' \in StoredFiles \ {file}
  /\ UNCHANGED << now, cmConfig, confluenceClient, calls, remoteVersion, monitor >>

NextFile ==
  \/ Tick
  \/ OperatorEditsFile
  \/ CallReadTool(1, {"get_page"})
  \/ CallUnknownTool(1)
  \/ StartSetup(1)
  \/ FinishSetup(1)
  \/ RespondSuccess(1)
  \/ RespondFailure(1)
  \/ RenewSucceeds(1)
  \/ RenewFails(1)
  \/ Return(1)

SpecFile == InitFile /\ [][NextFile]_vars

\* The same server when the transport delivers a second call while the first
\* awaits the network: two update_page calls on one page, on a configured
\* server.
PipelinedCalls == {1, 2}

\* A quota that lets the requests of both calls pass, as the quota of 100
\* that setup_confluence writes does.
PipelinedConfig ==
  [MkConfig("tokA", None) EXCEPT !.rateLimitRequests = 4 * RateLimitRequests]

InitPipelined ==
  /\ now = 0
  /\ file = Some(PipelinedConfig)
  /\ cmConfig = file
  /\ confluenceClient = Some(NewConfluenceClient(Val(file), 0))
  /\ calls = [c \in PipelinedCalls |-> IdleCall]
  /\ remoteVersion = 1
  /\ monitor = NoMonitor(FALSE)

\* update_page with a content in storage format and no title.
PipelinedUpdate(c) ==
  StartTool(c, "update_page", [NoArgs EXCEPT !.content = Some(StorageParagraph)])

\* The remote refuses the credentials (401), once for a request, or the
\* version (409).
PipelinedFailure(c) ==
  \/ calls[c].req.renewals = 0 /\ RespondsWith(c, 401, None)
  \/ RespondsWith(c, 409, Some([message |-> "remote message", status |-> NoStatus]))

NextPipelined ==
  \/ \E c \in PipelinedCalls : PipelinedUpdate(c)
  \/ \E c \in PipelinedCalls : FetchReturnsPage(c, RemotePage(TRUE, TRUE))
  \/ \E c \in PipelinedCalls : RespondSuccess(c)
  \/ \E c \in PipelinedCalls : PipelinedFailure(c)
  \/ \E c \in PipelinedCalls : RenewsWith(c, "tokB")
  \/ \E c \in PipelinedCalls : RenewFails(c)
  \/ \E c \in PipelinedCalls : Return(c)

SpecPipelined == InitPipelined /\ [][NextPipelined]_vars

\* Two get_page calls pipelined on a server whose quota is RateLimitRequests,
\* with the times of the passed requests kept.
InitLimiter ==
  /\ now = 0
  /\ file = Some(MkConfig("tokA", None))
  /\ cmConfig = file
  /\ confluenceClient = Some(NewConfluenceClient(Val(file), 0))
  /\ calls = [c \in PipelinedCalls |-> IdleCall]
  /\ remoteVersion = 1
  /\ monitor = NoMonitor(TRUE)

\* The remote refuses the credentials (401), once for a request, or fails
\* (500).
LimiterFailure(c) ==
  \/ calls[c].req.renewals = 0 /\ RespondsWith(c, 401, None)
  \/ RespondsWith(c, 500, None)

NextLimiter ==
  \/ Tick
  \/ \E c \in PipelinedCalls : StartTool(c, "get_page", NoArgs)
  \/ \E c \in PipelinedCalls : RespondSuccess(c)
  \/ \E c \in PipelinedCalls : LimiterFailure(c)
  \/ \E c \in PipelinedCalls : RenewsWith(c, "tokB")
  \/ \E c \in PipelinedCalls : RenewFails(c)
  \/ \E c \in PipelinedCalls : Return(c)

SpecLimiter == InitLimiter /\ [][NextLimiter]_vars

\* The server asked for its resources only, started with or without a
\* configuration file.
NextResource ==
  \/ Tick
  \/ ReadResource(1)
  \/ RespondSuccess(1)
  \/ RespondFailure(1)
  \/ RenewSucceeds(1)
  \/ RenewFails(1)
  \/ Return(1)

SpecResource == InitFile /\ [][NextResource]_vars

\* The tools of the ListToolsRequestSchema handler: the properties of each
\* inputSchema and those it lists as required.
inputSchema ==
  [ search_confluence |-> [ properties |-> {"query", "limit"},
                            required   |-> {"query"} ],
    get_page          |-> [ properties |-> {"pageId", "expand"},
                            required   |-> {"pageId"} ],
    get_space         |-> [ properties |-> {"spaceKey"},
                            required   |-> {"spaceKey"} ],
    list_spaces       |-> [ properties |-> {"limit"},
                            required   |-> {} ],
    search_pages      |-> [ properties |-> {"query", "limit"},
                            required   |-> {"query"} ],
    get_recent_pages  |-> [ properties |-> {"limit"},
                            required   |-> {} ],
    create_page       |-> [ properties |-> {"spaceKey", "title", "content", "parentId"},
                            required   |-> {"spaceKey", "title", "content"} ],
    update_page       |-> [ properties |-> {"pageId", "title", "content"},
                            required   |-> {"pageId", "content"} ],
    setup_confluence  |-> [ properties |-> {"action", "confluenceBaseUrl",
                                            "confluenceEmail", "confluenceApiToken"},
                            required   |-> {"action"} ] ]

\* The z.object of each handler: its keys and those declared .optional().
HandlerSchema ==
  [ search_confluence |-> [ keys |-> {"query", "limit"}, optional |-> {"limit"} ],
    get_page          |-> [ keys |-> {"pageId", "expand"}, optional |-> {"expand"} ],
    get_space         |-> [ keys |-> {"spaceKey"}, optional |-> {} ],
    list_spaces       |-> [ keys |-> {"limit"}, optional |-> {"limit"} ],
    search_pages      |-> [ keys |-> {"query", "limit"}, optional |-> {"limit"} ],
    get_recent_pages  |-> [ keys |-> {"limit"}, optional |-> {"limit"} ],
    create_page       |-> [ keys |-> {"spaceKey", "title", "content", "parentId"},
                            optional |-> {"parentId"} ],
    update_page       |-> [ keys |-> {"pageId", "title", "content"},
                            optional |-> {"title"} ],
    setup_confluence  |-> [ keys |-> {"action", "confluenceBaseUrl",
                                      "confluenceEmail", "confluenceApiToken"},
                            optional |-> {"confluenceBaseUrl", "confluenceEmail",
                                          "confluenceApiToken"} ] ]

\* The names the CallToolRequestSchema handler has a branch for.
DispatchedTools == DeclaredTools \cup {"setup_confluence"}

\* schemaParse with no key taken as optional.
schemaParseAllRequired(tool, supplied) ==
  tool \in DispatchedTools => HandlerSchema[tool].keys \subseteq supplied

\* schema.parse(args) of the handler of tool, args an object with well-typed
\* values under the names supplied: every key that is not optional is
\* there.  A name without a handler reaches no schema.
schemaParse(tool, supplied) ==
  tool \in DispatchedTools =>
    (HandlerSchema[tool].keys \ HandlerSchema[tool].optional) \subseteq supplied

\* The arguments object of a call that supplies the names in supplied.
ArgumentsOf(tool, supplied, action) ==
  [ ok             |-> schemaParse(tool, supplied),
    action         |-> IF "action" \in supplied THEN action ELSE "",
    token          |-> IF "confluenceApiToken" \in supplied THEN "tokA" ELSE "",
    hasUrlAndEmail |-> {"confluenceBaseUrl", "confluenceEmail"} \subseteq supplied,
    title          |-> IF "title" \in supplied THEN Some("T1") ELSE None,
    content        |-> IF "content" \in supplied THEN Some(StorageParagraph) ELSE None,
    supplied       |-> supplied ]

\* A tools/call with any name, advertised or not, and any subset of the
\* properties the advertised schema has for it.
CallWithArguments(c) ==
  \E tool \in DOMAIN inputSchema \cup {"no_such_tool"},
     action \in {"setup", "update_token", "validate"} :
    \E supplied \in SUBSET (IF tool \in DOMAIN inputSchema
                               THEN inputSchema[tool].properties ELSE {}) :
      /\ tool # "setup_confluence" => action = "setup"
      /\ IF tool = "setup_confluence"
           THEN StartSetupWith(c, ArgumentsOf(tool, supplied, action))
           ELSE StartTool(c, tool, ArgumentsOf(tool, supplied, action))

\* The configured server called with every tool and every set of arguments.
NextArguments ==
  \/ CallWithArguments(1)
  \/ FinishSetup(1)
  \/ FetchReturnsPage(1, RemotePage(TRUE, TRUE))
  \/ RespondSuccess(1)
  \/ RespondsWith(1, 500, None)
  \/ Return(1)

SpecArguments == InitClient /\ [][NextArguments]_vars

\* ------------------------------------------------------------------ claims

\* The live axios instance.
LiveInstance == Val(confluenceClient).client

\* C1: window-bounded quota.  For every run of the limiter: made while
\* now - windowStart <= window, it passes when fewer than quota calls were
\* made since windowStart and is rejected otherwise; made once
\* now - windowStart > window, it passes, the count restarts (it is 1 after
\* this call) and windowStart is the time of the call.
C1_WindowBoundedQuota ==
  \A c \in Calls :
    LET l == calls[c].lim
    IN  l.ran =>
          /\ (l.elapsed <= RateLimitWindowMs /\ l.triedBefore < RateLimitRequests)
               => ~l.rejected
          /\ (l.elapsed <= RateLimitWindowMs /\ l.triedBefore >= RateLimitRequests)
               => l.rejected
          /\ l.elapsed > RateLimitWindowMs
               => /\ ~l.rejected
                  /\ LiveInstance.requestCount = 1
                  /\ LiveInstance.windowStart = l.at

\* A call passes in a fresh window after the window before it saw quota
\* calls pass and one more rejected.
C1_Witness ==
  /\ calls[1].lim.ran
  /\ calls[1].lim.elapsed > RateLimitWindowMs
  /\ calls[1].lim.triedBefore = RateLimitRequests + 1
  /\ ~calls[1].lim.rejected

\* C2: a call the limiter rejected is never sent, starts no renewal and is
\* over.
C2_RejectedNeverSent ==
  \A c \in Calls :
    (calls[c].lim.ran /\ calls[c].lim.rejected) =>
      /\ calls[c].req.sent = 0
      /\ calls[c].req.sentWith = <<>>
      /\ calls[c].req.renewals = 0
      /\ ~calls[c].req.answered
      /\ calls[c].pc = "done"

\* The limiter rejected the PUT of an update whose fetch had passed.
C2_Witness ==
  /\ calls[1].lim.ran
  /\ calls[1].lim.rejected
  /\ calls[1].tool = "update_page"
  /\ calls[1].req.method = "PUT"

\* C3: the caller of a client method whose request the limiter rejected gets
\* the RateLimitError the request interceptor threw.
C3_TypedRateLimitError ==
  \A c \in Calls :
    (calls[c].lim.ran /\ calls[c].lim.rejected) =>
      calls[c].clientErr = ClientSideLimit

\* C4: within one window the remote is sent no more rate-limited requests
\* than the quota, whatever is rebuilt in between.
C4_QuotaAcrossRebuilds ==
  monitor.on => monitor.count <= RateLimitRequests

\* C5: bounded retry.  For one request the renewal procedure is called at
\* most once and the request is sent at most twice.
C5_BoundedRetry ==
  \A c \in Calls :
    /\ calls[c].req.renewals <= 1
    /\ calls[c].req.sent <= 2

\* C6: a request resubmitted after a renewal carries the Authorization
\* header of the rebuilt client, and when the resubmission is answered 2xx
\* the call returns its result.
C6_ResubmitsWithNewHeader ==
  \A c \in Calls :
    LET req == calls[c].req
    IN  (req.rebuilds = 1 /\ req.sent = 2) =>
          /\ req.sentWith[2] = LiveInstance.authorization
          /\ (calls[c].pc = "done" /\ req.status = SuccessStatus)
               => /\ IsSome(calls[c].result)
                  /\ ~Val(calls[c].result).isError

\* C7: when the one resubmission after a renewal fails with a status other
\* than 401, the call ends with TokenExpiredError.
C7_RenewalErrorSurfaced ==
  \A c \in Calls :
    LET req == calls[c].req
    IN  (req.rebuilds = 1 /\ req.sent = 2 /\ req.renewals = 1 /\ req.answered
         /\ req.status \in FailureStatuses \ {401}) =>
          /\ calls[c].pc = "done"
          /\ calls[c].clientErr = TokenExpiredError(<<"Token renewal failed">>)

\* C8: a call whose renewal procedure failed ends with TokenExpiredError,
\* its request was sent once only, and the file, the manager's configuration
\* and the live client are those the request started from.
C8_FailedRenewalLeavesState ==
  \A c \in Calls :
    calls[c].renewal \in {"no token", "invalid token", "write failed"} =>
      /\ calls[c].pc = "done"
      /\ calls[c].clientErr = TokenExpiredError(<<"Token renewal failed">>)
      /\ calls[c].req.sent = 1
      /\ calls[c].req.rebuilds = 0
      /\ file = calls[c].snap.file
      /\ cmConfig = calls[c].snap.cmConfig
      /\ Some(Val(confluenceClient).config) = calls[c].snap.config
      /\ Some(LiveInstance.authorization) = calls[c].snap.authorization

\* The error the caller is to get for a failure status other than 401.
C9_Expected(status, body) ==
  IF status = 403
    THEN [ name |-> "AuthenticationError",
           message |-> <<"Access denied. Check your permissions.">>,
           statusCode |-> 401, response |-> None ]
  ELSE IF status = 429
    THEN [ name |-> "RateLimitError",
           message |-> <<"Rate limit exceeded. Please wait a moment.">>,
           statusCode |-> 429, response |-> None ]
  ELSE [ name |-> "ConfluenceAPIError",
         message |->
           (IF status = NoStatus THEN <<"timeout of 30000ms exceeded">>
            ELSE <<"Request failed with status code ", ToString(status)>>)
           \o <<" - Details: ">>
           \o (IF IsSome(body) THEN <<"remote message">>
               ELSE IF status = NoStatus THEN <<"timeout of 30000ms exceeded">>
               ELSE <<"Request failed with status code ", ToString(status)>>),
         statusCode |-> status, response |-> body ]

\* C9: the step in which a request in flight is answered with 403, 429, any
\* other status but 401, or not at all ends the call with the error of that
\* status, sends nothing, starts no renewal and leaves file, configuration
\* and client alone; a request no 401 preceded was sent exactly once and
\* ends in the state it started from.
C9_OtherFailuresNotRetried ==
  [][\A c \in Calls :
       (/\ calls[c].pc = "inflight"
        /\ calls'[c].req.answered
        /\ calls'[c].req.status \in FailureStatuses \ {401}) =>
          /\ calls'[c].pc = "done"
          /\ calls'[c].clientErr =
               C9_Expected(calls'[c].req.status, calls'[c].req.body)
          /\ calls'[c].req.sent = calls[c].req.sent
          /\ calls'[c].req.renewals = calls[c].req.renewals
          /\ calls'[c].req.rebuilds = calls[c].req.rebuilds
          /\ UNCHANGED << file, cmConfig, confluenceClient >>
          /\ calls[c].req.renewals = 0 =>
               /\ calls'[c].req.sent = 1
               /\ file' = calls'[c].snap.file
               /\ cmConfig' = calls'[c].snap.cmConfig
               /\ Some(Val(confluenceClient').config) = calls'[c].snap.config
               /\ Some(Val(confluenceClient').client.authorization)
                    = calls'[c].snap.authorization
  ]_vars

\* A request sent once and answered 403 ended the call with
\* AuthenticationError.
C9_Witness ==
  /\ calls[1].pc = "done"
  /\ calls[1].req.sent = 1
  /\ calls[1].req.renewals = 0
  /\ calls[1].req.answered
  /\ calls[1].req.status = 403
  /\ calls[1].clientErr.name = "AuthenticationError"

\* C10: the PUT of an update_page is built from the page a fetch returned:
\* its version is the fetched version + 1 and its space key the fetched
\* one; an update_page that ended without a fetched page, or with one
\* lacking version or space, issued no PUT.
C10_FetchThenWrite ==
  \A c \in Calls :
    calls[c].tool = "update_page" =>
      /\ calls[c].req.method = "PUT" =>
            /\ IsSome(calls[c].fetched)
            /\ IsSome(Val(calls[c].fetched).version)
            /\ IsSome(Val(calls[c].fetched).space)
            /\ Val(calls[c].req.data).version
                 = Val(Val(calls[c].fetched).version) + 1
            /\ Val(calls[c].req.data).spaceKey = Val(Val(calls[c].fetched).space)
      /\ (\/ ~IsSome(calls[c].fetched)
          \/ ~IsSome(Val(calls[c].fetched).version)
          \/ ~IsSome(Val(calls[c].fetched).space)) =>
            /\ calls[c].req.method # "PUT"
            /\ calls[c].req.data = None

\* An update whose PUT, built on the fetched page, was accepted.
C10_Witness ==
  /\ calls[1].tool = "update_page"
  /\ calls[1].pc = "done"
  /\ calls[1].req.method = "PUT"
  /\ calls[1].req.status = SuccessStatus
  /\ Val(calls[1].req.data).version = Val(Val(calls[1].fetched).version) + 1
  /\ ~Val(calls[1].result).isError

\* C11: an update_page whose PUT the remote answered with 409 ends with the
\* result that names the version conflict.
C11_ConflictNamed ==
  \A c \in Calls :
    (/\ calls[c].tool = "update_page"
     /\ calls[c].phase = "write"
     /\ calls[c].pc = "done"
     /\ calls[c].req.answered
     /\ calls[c].req.status = 409) =>
      /\ IsSome(calls[c].result)
      /\ Val(calls[c].result).isError
      /\ Val(calls[c].result).text =
           << FailureGlyph, " Error updating page: ",
              "Version conflict: The page was modified by another user. Please try again." >>

\* C12: the PUT of an updatePage called without content carries the fetched
\* body unchanged, called without title the fetched title, and in every
\* case the fetched space key; only title, body and version number can
\* differ from the fetched page.
C12_ReusesFetchedFields ==
  \A c \in Calls :
    (calls[c].tool = "update_page" /\ calls[c].req.method = "PUT") =>
      LET page == Val(calls[c].fetched)
          data == Val(calls[c].req.data)
      IN  /\ ~IsSome(calls[c].args.content) =>
               /\ IsSome(page.body)
               /\ data.body = Val(page.body)
          /\ IsSome(calls[c].args.content) => data.body = Val(calls[c].args.content)
          /\ ~IsSome(calls[c].args.title) => data.title = page.title
          /\ IsSome(calls[c].args.title) => data.title = Val(calls[c].args.title)
          /\ data.spaceKey = Val(page.space)
          /\ data.version = Val(page.version) + 1

\* An updatePage called with a title and no content sent its PUT with the
\* fetched body.
C12_Witness ==
  /\ calls[1].tool = "update_page"
  /\ calls[1].req.method = "PUT"
  /\ calls[1].req.sent = 1
  /\ calls[1].args.title = Some("T1")
  /\ ~IsSome(calls[1].args.content)
  /\ Val(calls[1].req.data).body = StorageParagraph
  /\ Val(calls[1].req.data).title = "T1"

\* The body an update would submit: the supplied content, else the fetched
\* body, else the empty string.
C13_ResultingBody(call) ==
  IF IsSome(call.args.content) THEN Val(call.args.content)
  ELSE IF IsSome(Val(call.fetched).body) THEN Val(Val(call.fetched).body)
  ELSE <<>>

\* C13: no PUT carries an empty body; an updatePage whose fetched page has
\* version and space and whose resulting body is empty ends after the fetch
\* with the empty-content error, its only request being the GET.
C13_NoEmptyBodyPut ==
  \A c \in Calls :
    calls[c].tool = "update_page" =>
      /\ calls[c].req.method = "PUT" => Val(calls[c].req.data).body # <<>>
      /\ (/\ IsSome(calls[c].fetched)
          /\ IsSome(Val(calls[c].fetched).version)
          /\ IsSome(Val(calls[c].fetched).space)
          /\ C13_ResultingBody(calls[c]) = <<>>) =>
            /\ calls[c].pc = "done"
            /\ calls[c].req.method = "GET"
            /\ calls[c].req.status = SuccessStatus
            /\ calls[c].clientErr.name = "Error"
            /\ calls[c].clientErr.message =
                 <<"Cannot update page with empty content. Provide content or ensure the page has existing content.">>
            /\ Val(calls[c].result).isError

\* An updatePage called without content on a page without a body was
\* refused after the fetch.
C13_Witness ==
  /\ calls[1].tool = "update_page"
  /\ calls[1].pc = "done"
  /\ IsSome(calls[1].fetched)
  /\ IsSome(Val(calls[1].fetched).version)
  /\ IsSome(Val(calls[1].fetched).space)
  /\ ~IsSome(Val(calls[1].fetched).body)
  /\ ~IsSome(calls[1].args.content)
  /\ calls[1].req.method = "GET"
  /\ Val(calls[1].result).isError

C15_FormatErrors ==
  {" MARKDOWN FORMAT DETECTED", " ATLASSIAN MARKUP FORMAT DETECTED", " INVALID FORMAT"}

\* s holds a well-formed paragraph element: <p> ... </p>.
C15_HasParagraph(s) ==
  \E i \in 1..Len(s) : \E k \in (i + 3)..Len(s) :
    /\ MatchAt(s, i, <<"<", "p", ">">>)
    /\ MatchAt(s, k, <<"<", "/", "p", ">">>)

\* C15: a create_page or update_page whose arguments pass the schema and
\* whose body holds a well-formed element never ends with a format error,
\* and the write request it issues carries that body unchanged.
C15_TaggedBodyAccepted ==
  \A c \in Calls :
    (/\ calls[c].tool \in {"create_page", "update_page"}
     /\ calls[c].args.ok
     /\ IsSome(calls[c].args.content)
     /\ C15_HasParagraph(Val(calls[c].args.content))) =>
      /\ IsSome(calls[c].result) =>
           \A i \in DOMAIN Val(calls[c].result).text :
             Val(calls[c].result).text[i] \notin C15_FormatErrors
      /\ calls[c].req.method \in {"POST", "PUT"} =>
           Val(calls[c].req.data).body = Val(calls[c].args.content)

\* C16: a create_page or update_page whose body is wiki markup and no
\* Markdown is not refused for its format: on a configured server with
\* arguments that pass the schema the call issues its first request.
C16_WikiMarkupAccepted ==
  \A c \in Calls :
    (/\ calls[c].tool \in {"create_page", "update_page"}
     /\ calls[c].pc # "idle"
     /\ calls[c].args.ok
     /\ IsSome(calls[c].args.content)
     /\ IsSome(confluenceClient)
     /\ MatchesAtlassian(Val(calls[c].args.content))
     /\ ~MatchesMarkdown(Val(calls[c].args.content))) =>
      /\ calls[c].lim.ran
      /\ calls[c].req # NoRequest
      /\ IsSome(calls[c].result) =>
           \A i \in DOMAIN Val(calls[c].result).text :
             Val(calls[c].result).text[i] # " ATLASSIAN MARKUP FORMAT DETECTED"

\* C17: every finished tool call has a result of one non-empty text block,
\* and the text of every failure begins with the failure glyph: a failed or
\* refused client method, arguments the schema refuses, an unknown tool, a
\* server that cannot be configured, a refused or invalid setup.  A call
\* not finished is waiting for the remote, the token prompt or the
\* validation of a configuration.
C17_AlwaysTextResult ==
  \A c \in Calls :
    /\ calls[c].pc \in {"idle", "inflight", "renewing", "validating", "done"}
    /\ calls[c].pc = "done" =>
         /\ IsSome(calls[c].result)
         /\ Len(Val(calls[c].result).text) > 0
         /\ Val(calls[c].result).isError => Val(calls[c].result).text[1] = FailureGlyph
         /\ (\/ calls[c].clientErr # NoError
             \/ ~calls[c].args.ok
             \/ calls[c].tool \notin DeclaredTools \cup {"setup_confluence"}
             \/ (calls[c].req.answered /\ calls[c].req.status # SuccessStatus)
             \/ (calls[c].lim.ran /\ calls[c].lim.rejected)
             \/ (calls[c].tool # "setup_confluence" /\ ~IsSome(confluenceClient)))
              => Val(calls[c].result).text[1] = FailureGlyph

\* A call of an unknown tool on a configured server ended with the text of
\* the handler's catch.
C17_Witness ==
  /\ calls[1].pc = "done"
  /\ calls[1].tool = "no_such_tool"
  /\ IsSome(confluenceClient)
  /\ Val(calls[1].result).text =
       <<FailureGlyph, " Error executing tool ", "no_such_tool", ": ",
         "Unknown tool: ", "no_such_tool">>

\* C18: validate before persist.  No step of a setup_confluence(setup) call
\* whose live check has not returned true changes the file, the manager's
\* configuration or the live client.
C18_ValidateBeforePersist ==
  [][\A c \in Calls :
       (/\ calls'[c].tool = "setup_confluence"
        /\ calls'[c].args.action = "setup"
        /\ calls'[c].validation # "valid") =>
          UNCHANGED << file, cmConfig, confluenceClient >>
  ]_vars

\* A setup with a complete triple that the live check refused ended while a
\* client built from an earlier configuration was live.
C18_Witness ==
  /\ calls[1].pc = "done"
  /\ calls[1].tool = "setup_confluence"
  /\ calls[1].args.action = "setup"
  /\ calls[1].args.token = "tokB"
  /\ calls[1].validation = "invalid"
  /\ IsSome(confluenceClient)
  /\ Val(cmConfig).confluenceApiToken = "tokA"
  /\ file = cmConfig
  /\ Val(calls[1].result).isError

\* C19: after a setup_confluence(setup) whose triple passed the live check
\* and was saved, the file and the manager's configuration are the submitted
\* base URL, e-mail address and token with a lastValidated time stamp, and
\* the live client is built from them; whenever a client is live, it is
\* built from the manager's configuration, and the first transmission of
\* every request carries the Authorization header of those credentials.
C19_SetupPersistsSubmitted ==
  /\ \A c \in Calls :
       (/\ calls[c].pc = "done"
        /\ calls[c].tool = "setup_confluence"
        /\ calls[c].args.action = "setup"
        /\ calls[c].validation = "valid"
        /\ ~Val(calls[c].result).isError) =>
          /\ IsSome(cmConfig)
          /\ file = cmConfig
          /\ Val(cmConfig).confluenceBaseUrl = BaseUrl
          /\ Val(cmConfig).confluenceEmail = Email
          /\ Val(cmConfig).confluenceApiToken = calls[c].args.token
          /\ IsSome(Val(cmConfig).lastValidated)
          /\ ~IsSome(Val(cmConfig).tokenExpiryDate)
          /\ IsSome(confluenceClient)
          /\ LiveInstance.requestCount = 0
  /\ IsSome(confluenceClient) =>
       /\ IsSome(cmConfig)
       /\ Val(confluenceClient).config = Val(cmConfig)
       /\ LiveInstance.authorization =
            BasicAuth(Val(cmConfig).confluenceEmail, Val(cmConfig).confluenceApiToken)
  /\ \A c \in Calls :
       (calls[c].req.sent >= 1 /\ calls[c].req.rebuilds = 0) =>
         calls[c].req.sentWith[1] =
           BasicAuth(Val(cmConfig).confluenceEmail, Val(cmConfig).confluenceApiToken)

\* A get_page sent with the token a setup had replaced the stored one by.
C19_Witness ==
  /\ calls[1].tool = "get_page"
  /\ calls[1].pc = "inflight"
  /\ calls[1].req.sentWith = <<BasicAuth(Email, "tokB")>>
  /\ Val(file).confluenceApiToken = "tokB"
  /\ Val(file).lastValidated = Some(1)
  /\ ~IsSome(Val(file).tokenExpiryDate)

\* A configuration but for its token, tokenExpiryDate and lastValidated.
C20_OtherFields(config) ==
  << config.confluenceBaseUrl, config.confluenceEmail, config.logLevel,
     config.rateLimitRequests, config.rateLimitWindowMs >>

\* C20: a finished setup_confluence(update_token) whose live check refused
\* the new token left the file, the manager's configuration and the live
\* client with those the call started from; one whose live check accepted it
\* and that succeeded left all three with the new token, the other fields as
\* they were and no tokenExpiryDate.
C20_UpdateTokenValidates ==
  \A c \in Calls :
    (/\ calls[c].pc = "done"
     /\ calls[c].tool = "setup_confluence"
     /\ calls[c].args.action = "update_token") =>
      /\ calls[c].validation = "invalid" =>
           /\ Val(calls[c].result).isError
           /\ file = calls[c].snap.file
           /\ cmConfig = calls[c].snap.cmConfig
           /\ Some(Val(confluenceClient).config) = calls[c].snap.config
           /\ Some(LiveInstance.authorization) = calls[c].snap.authorization
      /\ (calls[c].validation = "valid" /\ ~Val(calls[c].result).isError) =>
           /\ file = cmConfig
           /\ Val(confluenceClient).config = Val(cmConfig)
           /\ Val(cmConfig).confluenceApiToken = calls[c].args.token
           /\ LiveInstance.authorization = BasicAuth(Email, calls[c].args.token)
           /\ ~IsSome(Val(cmConfig).tokenExpiryDate)
           /\ C20_OtherFields(Val(cmConfig))
                = C20_OtherFields(Val(calls[c].snap.cmConfig))

\* An update_token replaced the token of a stored configuration that held a
\* tokenExpiryDate.
C20_Witness ==
  /\ calls[1].pc = "done"
  /\ calls[1].tool = "setup_confluence"
  /\ calls[1].args.action = "update_token"
  /\ calls[1].validation = "valid"
  /\ ~Val(calls[1].result).isError
  /\ calls[1].args.token = "tokB"
  /\ IsSome(Val(calls[1].snap.cmConfig).tokenExpiryDate)
  /\ Val(calls[1].snap.cmConfig).confluenceApiToken = "tokA"
  /\ Val(file).confluenceApiToken = "tokB"

\* C21: no step of a setup_confluence(validate) call changes the file, the
\* manager's configuration or the live client with its limiter state, and
\* the configuration handed to the live check is the manager's.
C21_ValidateChangesNothing ==
  [][\A c \in Calls :
       (/\ calls'[c].tool = "setup_confluence"
        /\ calls'[c].args.action = "validate"
        /\ calls'[c].args.ok) =>
          /\ UNCHANGED << file, cmConfig, confluenceClient >>
          /\ calls'[c].pc = "validating" => calls'[c].pending = cmConfig
          /\ calls'[c].validation # "" =>
               /\ calls[c].pending = cmConfig
               /\ calls'[c].pc = "done"
               /\ Val(calls'[c].result).isError <=> calls'[c].validation = "invalid"
  ]_vars

\* A validate whose live check failed ended while the live client had
\* counted a request in its window.
C21_Witness ==
  /\ calls[1].pc = "done"
  /\ calls[1].tool = "setup_confluence"
  /\ calls[1].args.action = "validate"
  /\ calls[1].validation = "invalid"
  /\ IsSome(confluenceClient)
  /\ LiveInstance.requestCount > 0
  /\ IsSome(Val(cmConfig).tokenExpiryDate)

\* No configuration is held and none can be loaded: no client, nothing
\* cached, and the file missing or refused by the schema.
C22_Unconfigurable ==
  /\ ~IsSome(confluenceClient)
  /\ ~IsSome(cmConfig)
  /\ file \in {None, Some(InvalidStored)}

\* C22: a call of any tool but setup_confluence started while no
\* configuration can be loaded ends at once with the error text that points
\* to setup_confluence, issues no request and changes nothing; a
\* setup_confluence(setup) call with a complete triple started in any state
\* goes on to the live check.
C22_RunsUnconfigured ==
  [][\A c \in Calls :
       (calls[c].pc = "idle" /\ calls'[c].pc # "idle") =>
         /\ (calls'[c].tool # "setup_confluence" /\ C22_Unconfigurable) =>
              /\ calls'[c].pc = "done"
              /\ Val(calls'[c].result).isError
              /\ Val(calls'[c].result).text =
                   << FailureGlyph, " Error executing tool ", calls'[c].tool, ": ",
                      "No valid configuration found. Please use the setup_confluence tool to configure the connection." >>
              /\ calls'[c].req = NoRequest
              /\ ~calls'[c].lim.ran
              /\ UNCHANGED << file, cmConfig, confluenceClient >>
         /\ (/\ calls'[c].tool = "setup_confluence"
             /\ calls'[c].args.action = "setup"
             /\ calls'[c].args.hasUrlAndEmail
             /\ calls'[c].args.token # "") =>
              calls'[c].pc = "validating"
  ]_vars

\* A get_page was refused while the file held a configuration the schema
\* refuses.
C22_Witness ==
  /\ calls[1].pc = "done"
  /\ calls[1].tool = "get_page"
  /\ C22_Unconfigurable
  /\ file = Some(InvalidStored)
  /\ calls[1].req = NoRequest

\* C30: a tool call started while a client is live keeps the manager's
\* configuration and that client whatever the file holds, and its request
\* runs through that client's limiter and carries its Authorization header;
\* a tool call started while nothing is cached reads the file: a file the
\* schema accepts becomes the manager's configuration and the client's, any
\* other file leaves nothing cached.
C30_LoadCachedOnSuccessOnly ==
  [][\A c \in Calls :
       (/\ calls[c].pc = "idle"
        /\ calls'[c].pc # "idle"
        /\ calls'[c].tool # "setup_confluence") =>
         /\ IsSome(confluenceClient) =>
              /\ cmConfig' = cmConfig
              /\ Val(confluenceClient').config = Val(confluenceClient).config
              /\ Val(confluenceClient').client.authorization
                   = Val(confluenceClient).client.authorization
              /\ calls'[c].lim.ran =>
                   calls'[c].lim.elapsed = now - Val(confluenceClient).client.windowStart
              /\ calls'[c].req.sent = 1 =>
                   calls'[c].req.sentWith
                     = <<Val(confluenceClient).client.authorization>>
         /\ (~IsSome(confluenceClient) /\ ~IsSome(cmConfig)) =>
              IF IsSome(file) /\ Val(file).confluenceApiToken # ""
                THEN /\ cmConfig' = file
                     /\ IsSome(confluenceClient')
                     /\ Val(confluenceClient').config = Val(file)
                ELSE /\ cmConfig' = None
                     /\ confluenceClient' = None
                     /\ calls'[c].pc = "done"
         /\ file' = file
  ]_vars

\* A get_page was sent with the cached credentials after the file had been
\* replaced by one the schema refuses.
C30_Witness ==
  /\ calls[1].pc = "inflight"
  /\ calls[1].tool = "get_page"
  /\ file = Some(InvalidStored)
  /\ calls[1].req.sentWith = <<BasicAuth(Email, "tokA")>>
  /\ calls[1].lim.elapsed > 0

\* An update_page call whose PUT has been dispatched.
C23_Writing(call) ==
  /\ call.tool = "update_page"
  /\ call.phase = "write"
  /\ call.req.method = "PUT"
  /\ call.req.sent > 0

C23_Succeeded(call) ==
  call.pc = "done" /\ ~Val(call.result).isError

\* C23: two update_page calls on one page that both fetched version V both
\* submit V + 1; at most one of them succeeds; a successful update moves the
\* remote version forward by exactly one, to the version submitted; a call
\* whose PUT is answered 409 ends at that step with an error result, with
\* nothing sent again and no renewal started; and a call whose submitted
\* version the remote has already reached never ends in success.
C23_RemoteArbitratesRace ==
  [][/\ \A c \in PipelinedCalls :
          /\ C23_Writing(calls'[c]) =>
               Val(calls'[c].req.data).version
                 = Val(Val(calls'[c].fetched).version) + 1
          /\ (C23_Writing(calls[c]) /\ calls[c].pc = "inflight"
                /\ calls'[c].req.status = 409) =>
               /\ calls'[c].pc = "done"
               /\ Val(calls'[c].result).isError
               /\ calls'[c].req.sent = calls[c].req.sent
               /\ calls'[c].req.renewals = calls[c].req.renewals
               /\ remoteVersion' = remoteVersion
          /\ (C23_Writing(calls[c]) /\ ~C23_Succeeded(calls[c])
                /\ C23_Succeeded(calls'[c])) =>
               /\ remoteVersion' = remoteVersion + 1
               /\ remoteVersion' = Val(calls[c].req.data).version
          /\ (C23_Writing(calls[c]) /\ calls[c].pc # "done"
                /\ Val(calls[c].req.data).version <= remoteVersion) =>
               ~C23_Succeeded(calls'[c])
     /\ \A c \in PipelinedCalls, d \in PipelinedCalls :
          (/\ c # d
           /\ C23_Writing(calls'[c])
           /\ C23_Writing(calls'[d])
           /\ calls'[c].fetched = calls'[d].fetched) =>
             ~(C23_Succeeded(calls'[c]) /\ C23_Succeeded(calls'[d]))
    ]_vars

\* Both calls fetched version 1 and submitted version 2; the first was
\* accepted and the second, answered 409, ended with an error.
C23_Witness ==
  /\ C23_Writing(calls[1])
  /\ C23_Writing(calls[2])
  /\ Val(calls[1].fetched).version = Some(1)
  /\ Val(calls[2].fetched).version = Some(1)
  /\ C23_Succeeded(calls[1])
  /\ calls[2].pc = "done"
  /\ calls[2].req.status = 409
  /\ Val(calls[2].result).isError
  /\ remoteVersion = 2

\* C26: the renewal procedures of two calls in flight do not overlap: at no
\* time are two calls both awaiting requestTokenRenewal.
C26_RenewalsDoNotOverlap ==
  \A c \in PipelinedCalls, d \in PipelinedCalls :
    c # d => ~(calls[c].pc = "renewing" /\ calls[d].pc = "renewing")

\* The requests the live instance let pass at or after its windowStart.
C27_PassedSinceWindowStart ==
  Cardinality({ i \in DOMAIN LiveInstance.passedAt :
                  LiveInstance.passedAt[i] >= LiveInstance.windowStart })

\* C27: for the live client, with any number of calls in flight,
\* 0 <= requestCount <= quota, and requestCount is the number of requests
\* that passed its limiter since its windowStart; a step in which the
\* limiter rejects a request leaves requestCount and windowStart as they
\* were.
C27_CountIsPassedInWindow ==
  [][/\ IsSome(confluenceClient') =>
          /\ LiveInstance'.requestCount >= 0
          /\ LiveInstance'.requestCount
               <= Val(confluenceClient').config.rateLimitRequests
          /\ LiveInstance'.requestCount = C27_PassedSinceWindowStart'
     /\ \A c \in PipelinedCalls :
          (/\ calls'[c].lim.ran
           /\ calls'[c].lim.rejected
           /\ calls'[c] # calls[c]
           /\ calls[c].pc # "done") =>
             /\ IsSome(confluenceClient)
             /\ LiveInstance'.requestCount = LiveInstance.requestCount
             /\ LiveInstance'.windowStart = LiveInstance.windowStart
    ]_vars

\* A request was rejected with the quota used up in a window that began
\* after earlier requests had passed, while the other call was in flight.
C27_Witness ==
  /\ IsSome(confluenceClient)
  /\ \E c \in PipelinedCalls, d \in PipelinedCalls :
       /\ calls[c].lim.ran
       /\ calls[c].lim.rejected
       /\ calls[d].pc = "inflight"
  /\ LiveInstance.requestCount = RateLimitRequests
  /\ Len(LiveInstance.passedAt) > RateLimitRequests

\* C28: whenever no tool call is in progress and the server holds a client,
\* the client's configuration and the Authorization header of its axios
\* instance are those of the configuration the manager holds, which is the
\* configuration in the file.
C28_CredentialsConsistent ==
  ((\A c \in Calls : calls[c].pc \in {"idle", "done"})
     /\ IsSome(confluenceClient)) =>
    /\ IsSome(cmConfig)
    /\ Val(confluenceClient).config = Val(cmConfig)
    /\ LiveInstance.authorization
         = BasicAuth(Val(cmConfig).confluenceEmail,
                     Val(cmConfig).confluenceApiToken)
    /\ file = cmConfig

\* A call ended after its 401 was renewed with another token: manager,
\* client and file hold that token.
C28_Witness ==
  /\ calls[1].pc = "done"
  /\ calls[1].renewal = "renewed"
  /\ IsSome(confluenceClient)
  /\ IsSome(cmConfig)
  /\ Val(cmConfig).confluenceApiToken = "tokB"
  /\ Val(calls[1].snap.cmConfig).confluenceApiToken = "tokA"

\* C29: setup_confluence with action update_token or validate, started
\* while the manager holds no configuration, ends at once with a
\* configuration error result: no validation request is made and file,
\* manager and client stay as they were, also when the file holds a
\* configuration the schema accepts.
C29_ActsOnLoadedConfigOnly ==
  [][\A c \in Calls :
       (/\ calls[c].pc = "idle"
        /\ calls'[c].tool = "setup_confluence"
        /\ calls'[c].args.ok
        /\ \/ calls'[c].args.action = "validate"
           \/ calls'[c].args.action = "update_token" /\ calls'[c].args.token # ""
        /\ ~IsSome(cmConfig)) =>
         /\ calls'[c].pc = "done"
         /\ calls'[c].result
              = TextResult(TRUE,
                  <<FailureGlyph, " Configuration error: ",
                    IF calls'[c].args.action = "validate"
                      THEN "Konfiguration nicht geladen. Rufen Sie loadConfig() auf."
                      ELSE "Keine Konfiguration geladen">>)
         /\ calls'[c].validation = ""
         /\ calls'[c].pending = None
         /\ calls'[c].req.sent = 0
         /\ UNCHANGED << file, cmConfig, confluenceClient >>
  ]_vars

\* validate was refused although the file holds a valid configuration.
C29_Witness ==
  /\ calls[1].pc = "done"
  /\ calls[1].tool = "setup_confluence"
  /\ calls[1].args.action = "validate"
  /\ cmConfig = None
  /\ file = Some(MkConfig("tokA", None))
  /\ calls[1].result
       = TextResult(TRUE, <<FailureGlyph, " Configuration error: ",
                            "Konfiguration nicht geladen. Rufen Sie loadConfig() auf.">>)

\* C24: a resource read always ends with one content block that carries
\* the URI asked for; when the read failed (no configuration, an unknown
\* URI, a request the limiter rejected or the remote failed, a renewal that
\* failed) the block is text/plain and its text is the failure glyph,
\* " Error loading resource: " and the message; and a read started while
\* the server cannot be configured ends at once with the not-configured
\* message whatever the URI, the static document and unknown URIs included,
\* with nothing sent.
C24_ResourceErrorsAsContent ==
  [][\A c \in Calls :
       calls'[c].tool = "resources/read" =>
         /\ calls'[c].pc = "done" =>
              /\ IsSome(calls'[c].result)
              /\ Val(calls'[c].result).uri = calls'[c].uri
              /\ (\/ calls'[c].uri \notin ResourceUris
                  \/ calls'[c].clientErr # NoError)
                   => Val(calls'[c].result).isError
              /\ Val(calls'[c].result).isError =>
                   /\ Val(calls'[c].result).mimeType = "text/plain"
                   /\ SubSeq(Val(calls'[c].result).text, 1, 2)
                        = <<FailureGlyph, " Error loading resource: ">>
                   /\ Len(Val(calls'[c].result).text) > 2
         /\ (calls[c].pc = "idle" /\ ~CanConfigure) =>
              /\ calls'[c].pc = "done"
              /\ calls'[c].result
                   = ResourceContents(TRUE, calls'[c].uri, "text/plain",
                       <<FailureGlyph, " Error loading resource: ">>
                         \o NotConfiguredMessage)
              /\ calls'[c].req.sent = 0
              /\ UNCHANGED << cmConfig, confluenceClient >>
  ]_vars

\* The static document was asked for without a configuration and the answer
\* is the not-configured error block.
C24_Witness ==
  /\ calls[1].pc = "done"
  /\ calls[1].tool = "resources/read"
  /\ calls[1].uri = StorageFormatSpecUri
  /\ confluenceClient = None
  /\ calls[1].result
       = ResourceContents(TRUE, StorageFormatSpecUri, "text/plain",
           <<FailureGlyph, " Error loading resource: ">> \o NotConfiguredMessage)

\* The error result of the default branch of the dispatcher.
C25_UnknownTool(tool) ==
  TextResult(TRUE, <<FailureGlyph, " Error executing tool ", tool, ": ",
                     "Unknown tool: ", tool>>)

\* The error result of a handler whose schema.parse threw.
C25_ParseFailed(tool) ==
  TextResult(TRUE, <<FailureGlyph, " Error executing tool ", tool, ": ">>
                     \o ZodErrorMessage)

====
